---- MODULE Spec2Model ----
(***************************************************************************)
(* A model of llm_mlc.py, the llm plugin that registers, downloads and     *)
(* runs MLC chat models.                                                   *)
(*                                                                         *)
(* Python strings are TLA+ strings; TLC evaluates Len, SubSeq and \o on    *)
(* them.  None is the string None below, which no input ever equals.       *)
(***************************************************************************)
EXTENDS Integers, Sequences, FiniteSets, TLC

VARIABLES
    fs,         \* the tree under llm.user_dir(): mlc/, mlc/dist/, mlc/dist/prebuilt/*, aliases.json
    registry,   \* what the last register_models call handed to register(), in call order
    cmd,        \* the last command run: its name, argument, outcome, echoes and git clones
    exec,       \* one execute call up to reset_chat: its arguments and the configuration handed over
    stream,     \* the frame of one generate_iter call and the engine it drives
    fdt,        \* the process's file descriptor table: descriptor -> what it refers to
    pysys,      \* sys.stdout and sys.stderr: the stream objects they are bound to
    cwd,        \* the process's current working directory
    model,      \* each MlcModel object: its chat_mod handle and how it was constructed
    gen         \* each execute generator: where it is, its SuppressOutput instance, its outcome

fsVars == <<fs, registry, cmd>>

cfgVars == <<exec>>

streamVars == <<stream>>

genVars == <<fdt, pysys, cwd, model, gen>>

vars == <<fsVars, cfgVars, streamVars, genVars>>

notFsVars == <<cfgVars, streamVars, genVars>>

notCfgVars == <<fsVars, streamVars, genVars>>

notStreamVars == <<fsVars, cfgVars, genVars>>

notGenVars == <<fsVars, cfgVars, streamVars>>

None == "<None>"

\* Python truthiness of an Optional[str]
Truthy(v) == v # None /\ v # ""

---------------------------------------------------------------------------
(* Strings *)

\* str.startswith
StartsWith(s, p) == Len(s) >= Len(p) /\ SubSeq(s, 1, Len(p)) = p

\* the position of the last "/" of s at or before i, 0 when there is none
RECURSIVE LastSlash(_, _)
LastSlash(s, i) ==
    IF i = 0 THEN 0
    ELSE IF SubSeq(s, i, i) = "/" THEN i
    ELSE LastSlash(s, i - 1)

\* url.split("/")[-1]
LastBit(url) == SubSeq(url, LastSlash(url, Len(url)) + 1, Len(url))

\* dict.get(key), None when the key is missing
DictGet(d, k) == IF k \in DOMAIN d THEN d[k] ELSE None

---------------------------------------------------------------------------
(* Constants of the module *)

MODEL_URLS ==
    ("Llama-2-7b-chat" :> "https://huggingface.co/mlc-ai/mlc-chat-Llama-2-7b-chat-hf-q4f16_1")
    @@ ("Llama-2-13b-chat" :> "https://huggingface.co/mlc-ai/mlc-chat-Llama-2-13b-chat-hf-q4f16_1")
    @@ ("Llama-2-70b-chat" :> "https://huggingface.co/mlc-ai/mlc-chat-Llama-2-70b-chat-hf-q4f16_1")

PrebuiltPath == "<user_dir>/mlc/dist/prebuilt"

---------------------------------------------------------------------------
(* The file system under llm.user_dir() *)

\* A child of mlc/dist/prebuilt is a plain file, a directory without a
\* completed clone in it (empty, or what an interrupted clone left), or a
\* directory holding a completed clone.
ChildKinds == {"file", "dir", "repo"}

IsDir(kind) == kind \in {"dir", "repo"}

EmptyDict == [k \in {} |-> ""]

NoAliases == [exists |-> FALSE, data |-> EmptyDict]

FsEmpty ==
    [mlc |-> FALSE, dist |-> FALSE, prebuilt |-> FALSE,
     children |-> EmptyDict, aliases |-> NoAliases]

\* Path.mkdir(parents=True, exist_ok=True) of mlc, and of mlc/dist/prebuilt
MkdirMlc(f) == [f EXCEPT !.mlc = TRUE]

MkdirPrebuilt(f) == [f EXCEPT !.mlc = TRUE, !.dist = TRUE, !.prebuilt = TRUE]

\* the value of a variable group in the specifications that leave it alone
ExecIdle == [pc |-> "idle"]

StreamIdle == [pc |-> "idle"]

GenIdle ==
    /\ fdt = "idle"
    /\ pysys = "idle"
    /\ cwd = "idle"
    /\ model = "idle"
    /\ gen = "idle"

NoCmd ==
    [name |-> "none", arg |-> "", result |-> "ok", echo |-> <<>>,
     clones |-> <<>>, before |-> FsEmpty, prevIds |-> {}]

---------------------------------------------------------------------------
(* register_models *)

\* the body of the loop over models_dir.iterdir(): acc is what register()
\* has been handed so far
RegisterChild_NoLibCheck(acc, f, name) ==
    IF IsDir(f.children[name])
    THEN Append(acc, [model_id |-> name, model_path |-> PrebuiltPath \o "/" \o name])
    ELSE acc

RegisterChild(acc, f, name) ==
    IF IsDir(f.children[name]) /\ name # "lib"
    THEN Append(acc, [model_id |-> name, model_path |-> PrebuiltPath \o "/" \o name])
    ELSE acc

RECURSIVE RegisterLoop(_, _, _)
RegisterLoop(acc, f, order) ==
    IF order = <<>> THEN acc
    ELSE RegisterLoop(RegisterChild(acc, f, Head(order)), f, Tail(order))

\* order is the order in which iterdir() yields the children
register_models(f, order) ==
    IF ~f.prebuilt THEN <<>> ELSE RegisterLoop(<<>>, f, order)

\* iterdir() yields every child once, in an order the file system chooses
IterDir(f) ==
    LET S == DOMAIN f.children
    IN {o \in [1..Cardinality(S) -> S] : \A i, j \in 1..Cardinality(S) : o[i] = o[j] => i = j}

ModelIds(reg) == {reg[i].model_id : i \in DOMAIN reg}

RegisterModels ==
    \E order \in IterDir(fs) :
        /\ registry' = register_models(fs, order)
        /\ cmd' = [NoCmd EXCEPT !.name = "register_models", !.before = fs,
                                !.prevIds = ModelIds(registry)]
        /\ fs' = fs
        /\ UNCHANGED notFsVars

---------------------------------------------------------------------------
(* The user changing mlc/dist/prebuilt by hand, between commands *)

EnvNames == {"lib", "libs", "model-a", "notes"}

EnvCmd == [NoCmd EXCEPT !.name = "env"]

EnvPut ==
    \E name \in EnvNames, kind \in ChildKinds :
        /\ fs.prebuilt
        /\ fs' = [fs EXCEPT !.children = (name :> kind) @@ @]
        /\ cmd' = EnvCmd
        /\ UNCHANGED <<registry, notFsVars>>

EnvRemove ==
    \E name \in DOMAIN fs.children :
        /\ fs' = [fs EXCEPT !.children = [n \in (DOMAIN @) \ {name} |-> @[n]]]
        /\ cmd' = EnvCmd
        /\ UNCHANGED <<registry, notFsVars>>

EnvMkdirPrebuilt ==
    /\ ~fs.prebuilt
    /\ fs' = MkdirPrebuilt(fs)
    /\ cmd' = EnvCmd
    /\ UNCHANGED <<registry, notFsVars>>

EnvRmPrebuilt ==
    /\ fs.prebuilt
    /\ fs' = [fs EXCEPT !.prebuilt = FALSE, !.children = EmptyDict]
    /\ cmd' = EnvCmd
    /\ UNCHANGED <<registry, notFsVars>>

FilesStart ==
    /\ fs = FsEmpty
    /\ registry = <<>>
    /\ cmd = NoCmd

InitFiles ==
    /\ FilesStart
    /\ exec = ExecIdle
    /\ stream = StreamIdle
    /\ GenIdle

NextRegistry ==
    \/ RegisterModels
    \/ EnvPut
    \/ EnvRemove
    \/ EnvMkdirPrebuilt
    \/ EnvRmPrebuilt

SpecRegistry == InitFiles /\ [][NextRegistry]_vars

\* the children of the models directory that are directories and are not
\* the library folder
Qualifying(f) ==
    IF f.prebuilt
    THEN {n \in DOMAIN f.children : f.children[n] \in {"dir", "repo"} /\ n # "lib"}
    ELSE {}

\* C1: right after a scan the registered models are exactly one per child
\* of the models directory that is a directory and is not named lib, with
\* model_id the directory name; files and lib are never registered; a
\* missing models directory registers nothing; every scan reflects the
\* content the directory has at that scan.
C1_RegistryExact ==
    cmd.name = "register_models" =>
        /\ Len(registry) = Cardinality(Qualifying(fs))
        /\ ModelIds(registry) = Qualifying(fs)
        /\ \A i \in DOMAIN registry :
               /\ registry[i].model_id # "lib"
               /\ fs.children[registry[i].model_id] # "file"
        /\ ~fs.prebuilt => registry = <<>>

\* a second scan, after the directory changed, over a directory holding lib,
\* a plain file and two model directories
C1_Witness ==
    /\ cmd.name = "register_models"
    /\ cmd.prevIds # {}
    /\ cmd.prevIds # ModelIds(registry)
    /\ Len(registry) = 2
    /\ "lib" \in DOMAIN fs.children /\ IsDir(fs.children["lib"])
    /\ \E n \in DOMAIN fs.children : fs.children[n] = "file"

---------------------------------------------------------------------------
(* git, as the commands run it *)

\* What `git clone <url> prebuilt/<dest>` may do: "ok" completes the clone,
\* "fail" exits non-zero and leaves nothing behind, "interrupted" is a clone
\* cut short that leaves a partial directory.
CloneOutcomes == {"ok", "fail", "interrupted"}

\* git refuses a destination that exists and is not an empty directory.  An
\* empty last path segment names the models directory itself, taken here to
\* be refused as well.
CloneRefused(f, dest) ==
    \/ dest = ""
    \/ dest \in DOMAIN f.children /\ f.children[dest] \in {"file", "repo"}

CloneOk(f, dest, outcome) == outcome = "ok" /\ ~CloneRefused(f, dest)

GitClone(f, dest, outcome) ==
    IF CloneRefused(f, dest) \/ outcome = "fail" THEN f
    ELSE [f EXCEPT !.children = (dest :> (IF outcome = "ok" THEN "repo" ELSE "dir")) @@ @]

\* what subprocess.run(..., check=True) raises for a clone that did not succeed
CloneError(f, dest, outcome) ==
    IF outcome = "interrupted" /\ ~CloneRefused(f, dest)
    THEN "KeyboardInterrupt" ELSE "CalledProcessError"

\* s contains sub (Python's `sub in s`)
Contains(s, sub) ==
    \E i \in 1..(Len(s) + 1) :
        i + Len(sub) - 1 <= Len(s) /\ SubSeq(s, i, i + Len(sub) - 1) = sub

\* the exit of `git lfs`: TRUE for exit status 0
is_git_lfs_command_available(exit_ok) == exit_ok

\* the output of `git lfs status`, or the marker of a non-zero exit
LfsStatusError == "<CalledProcessError>"

LfsStatusOutputs ==
    {"On branch main Objects to be pushed to origin/main:",
     "Objects to be committed:",
     "Not in a Git repository.",
     "Git LFS is not configured",
     LfsStatusError}

is_git_lfs_installed(out) ==
    IF out = LfsStatusError THEN FALSE
    ELSE IF Contains(out, "Objects to be pushed") THEN TRUE
    ELSE IF Contains(out, "Objects to be committed") THEN TRUE
    ELSE IF Contains(out, "Not in a Git repository") THEN TRUE
    ELSE FALSE

---------------------------------------------------------------------------
(* llm mlc setup *)

EchoAskInstall == "Git LFS is not installed. Should I run 'git lfs install' for you?"

EchoDownloading == "Downloading prebuilt binaries..."

EchoReady == "Ready to install models in <user_dir>/mlc"

Outcome(f, result, echo, clones) ==
    [fs |-> f, result |-> result, echo |-> echo, clones |-> clones]

\* from the echo of "Ready to install models" on: the import of mlc_chat
SetupReady(f, echo, clones, in) ==
    Outcome(f, IF in.mlc_chat THEN "ok" ELSE "ClickException",
            echo \o <<EchoReady>>, clones)

\* the clone of the binary libraries, taken when dist_dir does not exist
SetupClone(f1, echo1, in) ==
    IF ~f1.dist
    THEN LET f2 == MkdirPrebuilt(f1)
             echo2 == echo1 \o <<EchoDownloading>>
         IN IF ~CloneOk(f2, "lib", in.clone)
            THEN Outcome(GitClone(f2, "lib", in.clone),
                         CloneError(f2, "lib", in.clone), echo2, <<"lib">>)
            ELSE SetupReady(GitClone(f2, "lib", in.clone), echo2, <<"lib">>, in)
    ELSE SetupReady(f1, echo1, <<>>, in)

\* in: what the environment answers during the run
setup(f, in) ==
    LET f1 == MkdirMlc(f)
        installed == is_git_lfs_installed(in.lfs_status)
        echo1 == IF installed THEN <<>> ELSE <<EchoAskInstall>>
    IN IF ~is_git_lfs_command_available(in.lfs_cmd)
       THEN Outcome(f1, "ClickException", <<>>, <<>>)
       ELSE IF ~installed /\ ~in.confirm
       THEN Outcome(f1, "ClickException", echo1, <<>>)
       ELSE IF ~installed /\ ~in.install_ok
       THEN Outcome(f1, "CalledProcessError", echo1, <<>>)
       ELSE SetupClone(f1, echo1, in)

SetupInputs ==
    [lfs_cmd : BOOLEAN, lfs_status : LfsStatusOutputs, confirm : BOOLEAN,
     install_ok : BOOLEAN, clone : CloneOutcomes, mlc_chat : BOOLEAN]

Setup ==
    \E in \in SetupInputs :
        LET r == setup(fs, in)
        IN /\ fs' = r.fs
           /\ cmd' = [NoCmd EXCEPT !.name = "setup", !.result = r.result,
                                   !.echo = r.echo, !.clones = r.clones,
                                   !.before = fs]
           /\ UNCHANGED <<registry, notFsVars>>

---------------------------------------------------------------------------
(* llm mlc download-model *)

Range(seq) == {seq[i] : i \in DOMAIN seq}

\* aliases.json after `aliases_data[alias] = last_bit` for every alias
WriteAliases(f, aliases, last_bit) ==
    LET data == IF f.aliases.exists THEN f.aliases.data ELSE EmptyDict
    IN [f EXCEPT !.aliases =
           [exists |-> TRUE,
            data |-> [k \in DOMAIN data \cup Range(aliases) |->
                         IF k \in Range(aliases) THEN last_bit ELSE data[k]]]]

\* the check of the argument, line 159
UrlAccepted_AnyScheme(url) == Contains(url, "://")

UrlAccepted(url) == StartsWith(url, "https://")

download_model(f, name_or_url, aliases, clone) ==
    LET got == DictGet(MODEL_URLS, name_or_url)
        url == IF Truthy(got) THEN got ELSE name_or_url
        aliases1 == IF name_or_url \in DOMAIN MODEL_URLS
                    THEN aliases \o <<name_or_url>> ELSE aliases
        last_bit == LastBit(url)
    IN IF ~UrlAccepted(url)
       THEN Outcome(f, "BadParameter", <<>>, <<>>)
       ELSE IF ~f.prebuilt
       THEN Outcome(f, "ClickException", <<>>, <<>>)
       ELSE IF ~CloneOk(f, last_bit, clone)
       THEN Outcome(GitClone(f, last_bit, clone), CloneError(f, last_bit, clone),
                    <<>>, <<last_bit>>)
       ELSE Outcome(IF aliases1 # <<>>
                    THEN WriteAliases(GitClone(f, last_bit, clone), aliases1, last_bit)
                    ELSE GitClone(f, last_bit, clone),
                    "ok", <<>>, <<last_bit>>)

NameOrUrlInputs ==
    {"Llama-2-7b-chat",
     "https://huggingface.co/mlc-ai/mlc-chat-Llama-2-7b-chat-hf-q4f16_1",
     "https://example.com/org/lib",
     "https://",
     "http://example.com/org/model",
     "HTTPS://example.com/org/model",
     "https:/example.com/org/model",
     " https://example.com/org/model",
     "git@example.com:org/model.git",
     "Llama-2-7b",
     "model",
     ""}

AliasInputs == {<<>>, <<"m">>}

DownloadModel ==
    \E name_or_url \in NameOrUrlInputs, aliases \in AliasInputs, clone \in CloneOutcomes :
        LET r == download_model(fs, name_or_url, aliases, clone)
        IN /\ fs' = r.fs
           /\ cmd' = [NoCmd EXCEPT !.name = "download_model", !.arg = name_or_url,
                                   !.result = r.result, !.echo = r.echo,
                                   !.clones = r.clones, !.before = fs]
           /\ UNCHANGED <<registry, notFsVars>>

NextCommands ==
    \/ Setup
    \/ DownloadModel
    \/ RegisterModels

SpecCommands == InitFiles /\ [][NextCommands]_vars

LibCloned(f) == "lib" \in DOMAIN f.children /\ f.children["lib"] = "repo"

\* C5: an argument that is neither a key of MODEL_URLS nor starts with
\* https:// ends the command with a bad-parameter error, without any git
\* clone and with the aliases file (and the rest of the tree) as it was.
C5_BadArgumentRejected ==
    (/\ cmd.name = "download_model"
     /\ cmd.arg \notin DOMAIN MODEL_URLS
     /\ ~StartsWith(cmd.arg, "https://"))
    => /\ cmd.result = "BadParameter"
       /\ cmd.clones = <<>>
       /\ fs.aliases = cmd.before.aliases
       /\ fs = cmd.before

\* a plain-http URL rejected after setup and an earlier download, when the
\* clone could have run and an aliases file exists
C5_Witness ==
    /\ cmd.name = "download_model"
    /\ cmd.arg = "http://example.com/org/model"
    /\ cmd.result = "BadParameter"
    /\ cmd.before.prebuilt
    /\ cmd.before.aliases.exists

\* C9: whenever a setup run reports "Ready to install models", the library
\* directory holds a completed clone, and a run that gets that far while the
\* clone is missing or incomplete runs the clone.
C9_ReadyImpliesLibCloned ==
    (cmd.name = "setup" /\ EchoReady \in Range(cmd.echo))
    => /\ LibCloned(fs)
       /\ ~LibCloned(cmd.before) => cmd.clones = <<"lib">>

---------------------------------------------------------------------------
(* MlcModel.execute, up to reset_chat: the configuration handed to the engine *)

\* An Optional option is <<>> when it is None and <<v>> when it is v.
\* temperature, top_p and repetition_penalty range over [0, 1]; max_gen_len
\* is an integer greater than 0.
Unset == <<>>

DefaultMaxGenLen == 512

MaxHistory == 2

\* a conversation is <<>> when execute is given none, <<responses>> otherwise
NoConversation == <<>>

DictSet(d, k, v) == (k :> v) @@ d

\* one pass of the loop over conversation.responses: acc is the system prompt
\* found so far and the messages collected so far
HistoryStep_FirstWins(acc, prev_response) ==
    [system_prompt |->
         IF Truthy(prev_response.system) /\ acc.system_prompt = None
         THEN prev_response.system ELSE acc.system_prompt,
     messages |-> acc.messages \o << <<"USER", prev_response.prompt>>,
                                     <<"ASSISTANT", prev_response.text>> >>]

HistoryStep_AssistantFirst(acc, prev_response) ==
    [system_prompt |->
         IF Truthy(prev_response.system)
         THEN prev_response.system ELSE acc.system_prompt,
     messages |-> acc.messages \o << <<"ASSISTANT", prev_response.text>>,
                                     <<"USER", prev_response.prompt>> >>]

HistoryStep(acc, prev_response) ==
    [system_prompt |->
         IF Truthy(prev_response.system)
         THEN prev_response.system ELSE acc.system_prompt,
     messages |-> acc.messages \o << <<"USER", prev_response.prompt>>,
                                     <<"ASSISTANT", prev_response.text>> >>]

RECURSIVE HistoryLoop(_, _)
HistoryLoop(acc, responses) ==
    IF responses = <<>> THEN acc
    ELSE HistoryLoop(HistoryStep(acc, Head(responses)), Tail(responses))

\* config_kwargs, the arguments of ConvConfig
config_kwargs(conversation, prompt_system) ==
    LET start == [system_prompt |-> None, messages |-> <<>>]
        h == IF conversation # NoConversation
             THEN HistoryLoop(start, conversation[1]) ELSE start
        k1 == IF conversation # NoConversation /\ h.messages # <<>>
              THEN DictSet(DictSet(EmptyDict, "messages", h.messages),
                           "offset", Len(h.messages))
              ELSE EmptyDict
        system_prompt == IF Truthy(prompt_system) THEN prompt_system
                         ELSE h.system_prompt
    IN IF system_prompt # None THEN DictSet(k1, "system", system_prompt) ELSE k1

\* `x is not None`
IsNotNone_Truthy(x) == x # Unset /\ x[1] # 0

IsNotNone(x) == x # Unset

\* `x or default` for an Optional[int]
OrDefault(x, default) == IF x # Unset /\ x[1] # 0 THEN x[1] ELSE default

\* chat_config_kwargs, the arguments of ChatConfig handed to reset_chat
chat_config_kwargs(call) ==
    LET o == call.options
        k0 == DictSet(DictSet(EmptyDict, "max_gen_len",
                              OrDefault(o.max_gen_len, DefaultMaxGenLen)),
                      "conv_config", config_kwargs(call.conversation, call.system))
        k1 == IF IsNotNone(o.temperature)
              THEN DictSet(k0, "temperature", o.temperature[1]) ELSE k0
        k2 == IF IsNotNone(o.top_p) THEN DictSet(k1, "top_p", o.top_p[1]) ELSE k1
    IN IF IsNotNone(o.repetition_penalty)
       THEN DictSet(k2, "repetition_penalty", o.repetition_penalty[1]) ELSE k2

\* the system prompts a prompt can carry: none, the empty string, two texts
SystemInputs == {None, "", "be brief", "be kind"}

\* the prior responses a history is made of
ResponseInputs ==
    {[system |-> None, prompt |-> "hi", text |-> "hello"],
     [system |-> "", prompt |-> "why", text |-> "because"],
     [system |-> "be brief", prompt |-> "hi", text |-> "yo"],
     [system |-> "be kind", prompt |-> "more", text |-> "hello"]}

RECURSIVE SeqsUpTo(_, _)
SeqsUpTo(S, n) ==
    IF n = 0 THEN {<<>>}
    ELSE LET shorter == SeqsUpTo(S, n - 1)
         IN shorter \cup {Append(q, x) : q \in shorter, x \in S}

ConversationInputs ==
    {NoConversation} \cup {<<r>> : r \in SeqsUpTo(ResponseInputs, MaxHistory)}

OptionInputs ==
    [temperature : {Unset, <<0>>, <<1>>},
     top_p : {Unset, <<0>>, <<1>>},
     repetition_penalty : {Unset, <<0>>, <<1>>},
     max_gen_len : {Unset, <<1>>, <<600>>}]

CallInputs ==
    [conversation : ConversationInputs, system : SystemInputs, options : OptionInputs]

\* execute is called with a prompt and a conversation the host tool built
InitConfig ==
    /\ exec \in {[pc |-> "called", call |-> c, handed |-> EmptyDict] : c \in CallInputs}
    /\ FilesStart
    /\ stream = StreamIdle
    /\ GenIdle

\* lines 285-328: the configuration is built and handed to reset_chat
ResetChat ==
    /\ exec.pc = "called"
    /\ exec' = [exec EXCEPT !.pc = "reset", !.handed = chat_config_kwargs(exec.call)]
    /\ UNCHANGED notCfgVars

NextConfig == ResetChat

SpecConfig == InitConfig /\ [][NextConfig]_vars

Conv == exec.handed["conv_config"]

\* the responses of the call's conversation, none when there is no conversation
History ==
    IF exec.call.conversation = NoConversation THEN <<>>
    ELSE exec.call.conversation[1]

MaxOf(S) == CHOOSE x \in S : \A y \in S : y <= x

\* the system prompt of the last history entry among those at the positions
\* I, or None when there is none
LastSystem(I) == IF I = {} THEN None ELSE History[MaxOf(I)].system

\* the configuration carries exactly the system prompt eff, or none when eff is None
CarriesSystem(eff) ==
    IF eff = None THEN "system" \notin DOMAIN Conv
    ELSE "system" \in DOMAIN Conv /\ Conv["system"] = eff

Given(v) == v # None

\* C2 as stated: the system prompt handed over is the call's when one is
\* given (any string, the empty one included), otherwise that of the last
\* history entry that set one, otherwise there is none.
C2_SystemPromptAsGiven ==
    exec.pc = "reset" =>
        CarriesSystem(IF Given(exec.call.system) THEN exec.call.system
                      ELSE LastSystem({i \in DOMAIN History : Given(History[i].system)}))

\* C2, amended: the system prompt handed over is the call's when it is a
\* non-empty string, otherwise that of the last history entry whose system
\* prompt is a non-empty string, otherwise there is none; an empty system
\* prompt counts as not set, in the call and in the history.
C2_SystemPromptNonEmpty ==
    exec.pc = "reset" =>
        CarriesSystem(IF Truthy(exec.call.system) THEN exec.call.system
                      ELSE LastSystem({i \in DOMAIN History : Truthy(History[i].system)}))

\* no system prompt in the call, two different ones in the history: the later wins
C2_Witness ==
    /\ exec.pc = "reset"
    /\ exec.call.system = None
    /\ Len(History) = 2
    /\ History[1].system = "be brief"
    /\ History[2].system = "be kind"
    /\ Conv["system"] = "be kind"

SamplingOptions == {"temperature", "top_p", "repetition_penalty", "max_gen_len"}

\* C7 as stated: each of the four sampling options is in the configuration
\* exactly when the caller set it, with the caller's value.
C7_OnlyOptionsSet ==
    exec.pc = "reset" =>
        \A k \in SamplingOptions :
            IF exec.call.options[k] = Unset THEN k \notin DOMAIN exec.handed
            ELSE k \in DOMAIN exec.handed /\ exec.handed[k] = exec.call.options[k][1]

\* C7, amended: temperature, top_p and repetition_penalty are in the
\* configuration exactly when the caller set them, with the caller's value, 0
\* included; max_gen_len is always in it, with the caller's value when set and
\* 512 otherwise.
C7_OptionsSetAndMaxGenLen ==
    exec.pc = "reset" =>
        /\ \A k \in SamplingOptions \ {"max_gen_len"} :
               IF exec.call.options[k] = Unset THEN k \notin DOMAIN exec.handed
               ELSE k \in DOMAIN exec.handed /\ exec.handed[k] = exec.call.options[k][1]
        /\ "max_gen_len" \in DOMAIN exec.handed
        /\ exec.handed["max_gen_len"] =
               IF exec.call.options["max_gen_len"] = Unset THEN 512
               ELSE exec.call.options["max_gen_len"][1]

\* temperature 0 set, top_p left out, max_gen_len left out
C7_Witness ==
    /\ exec.pc = "reset"
    /\ exec.call.options.temperature = <<0>>
    /\ exec.call.options.top_p = Unset
    /\ exec.call.options.max_gen_len = Unset
    /\ exec.handed["temperature"] = 0
    /\ "top_p" \notin DOMAIN exec.handed
    /\ exec.handed["max_gen_len"] = 512

\* C8: for a history of n responses the messages are 2n entries, USER and
\* ASSISTANT alternating in history order with response k's prompt and text,
\* and the offset is 2n; without a conversation or with an empty history the
\* configuration has neither messages nor offset.
C8_FlatMessages ==
    exec.pc = "reset" =>
        LET n == Len(History)
        IN IF n = 0
           THEN "messages" \notin DOMAIN Conv /\ "offset" \notin DOMAIN Conv
           ELSE /\ "messages" \in DOMAIN Conv /\ "offset" \in DOMAIN Conv
                /\ Len(Conv["messages"]) = 2 * n
                /\ Conv["offset"] = 2 * n
                /\ \A k \in 1..n :
                       /\ Conv["messages"][2 * k - 1] = <<"USER", History[k].prompt>>
                       /\ Conv["messages"][2 * k] = <<"ASSISTANT", History[k].text>>

\* a history of two different responses
C8_Witness ==
    /\ exec.pc = "reset"
    /\ Len(History) = 2
    /\ History[1].prompt # History[2].prompt
    /\ History[1].text # History[2].text
    /\ Conv["offset"] = 4

---------------------------------------------------------------------------
(* StreamingChatModule.generate_iter *)

MaxSteps == 3

\* the length of the longest common prefix of a and b
RECURSIVE CommonPrefixLen(_, _)
CommonPrefixLen(a, b) ==
    IF a = "" \/ b = "" THEN 0
    ELSE IF Head(a) # Head(b) THEN 0
    ELSE 1 + CommonPrefixLen(Tail(a), Tail(b))

\* mlc_chat.base.get_delta_message: what new_message has after the longest
\* prefix it shares with curr_message
get_delta_message(curr_message, new_message) ==
    SubSeq(new_message, CommonPrefixLen(curr_message, new_message) + 1, Len(new_message))

\* the body of the while loop after _decode: new_msg is what _get_message
\* returned; the delta is yielded
IterStep_StaleCurr(frame, new_msg) ==
    [frame EXCEPT !.emitted = Append(@, get_delta_message(frame.curr_message, new_msg))]

IterStep(frame, new_msg) ==
    [frame EXCEPT !.curr_message = new_msg,
                  !.emitted = Append(@, get_delta_message(frame.curr_message, new_msg))]

\* what a prefill may leave as the engine's output, what a decode step may
\* append to it, and what a decode step that rewrites its output may put in
\* place of the last character
PrefillTexts == {"", "a"}

DecodeTokens == {"", "a", "b", "ab"}

RewriteTokens == {"c"}

StreamStart ==
    [pc |-> "start", text |-> "", stopped |-> FALSE, steps |-> 0,
     curr_message |-> "", emitted |-> <<>>, snaps |-> <<>>]

InitStream ==
    /\ stream = StreamStart
    /\ FilesStart
    /\ exec = ExecIdle
    /\ GenIdle

\* curr_message = "" and self._prefill(prompt)
Prefill ==
    /\ stream.pc = "start"
    /\ \E t \in PrefillTexts, stop \in BOOLEAN :
           stream' = [stream EXCEPT !.pc = "loop", !.text = t, !.stopped = stop]
    /\ UNCHANGED notStreamVars

\* one pass of the loop: _decode, _get_message, the delta, the yield
Decode(new_text) ==
    /\ stream.pc = "loop"
    /\ ~stream.stopped
    /\ stream.steps < MaxSteps
    /\ \E stop \in BOOLEAN :
           stream' = [IterStep(stream, new_text) EXCEPT
                          !.text = new_text,
                          !.steps = @ + 1,
                          !.snaps = Append(@, new_text),
                          !.stopped = stop \/ stream.steps + 1 = MaxSteps]
    /\ UNCHANGED notStreamVars

\* the engine appends to its output (or leaves it as it is)
DecodeAppend == \E tok \in DecodeTokens : Decode(stream.text \o tok)

\* the engine replaces the last character of its output
DecodeRewrite ==
    /\ stream.text # ""
    /\ \E tok \in RewriteTokens :
           Decode(SubSeq(stream.text, 1, Len(stream.text) - 1) \o tok)

\* _stopped() is true: the generator is exhausted
StreamEnd ==
    /\ stream.pc = "loop"
    /\ stream.stopped
    /\ stream' = [stream EXCEPT !.pc = "done"]
    /\ UNCHANGED notStreamVars

NextStream ==
    \/ Prefill
    \/ DecodeAppend
    \/ DecodeRewrite
    \/ StreamEnd

SpecStream == InitStream /\ [][NextStream]_vars

RECURSIVE Concat(_)
Concat(frags) == IF frags = <<>> THEN "" ELSE Head(frags) \o Concat(Tail(frags))

\* snapshot k of the run, the empty string before the first decode step
Snap(k) == IF k = 0 THEN "" ELSE stream.snaps[k]

\* every snapshot extends the one before it
Extending == \A k \in 1..Len(stream.snaps) : StartsWith(Snap(k), Snap(k - 1))

---------------------------------------------------------------------------
(* File descriptors and the stream objects of sys *)

MaxFd == 9

Fds == 0..MaxFd

\* what a descriptor refers to; "closed" marks a free slot of the table
FdtStart ==
    [n \in Fds |-> IF n = 0 THEN "tty_in"
                   ELSE IF n = 1 THEN "tty_out"
                   ELSE IF n = 2 THEN "tty_err"
                   ELSE "closed"]

FreeFds(t) == {n \in Fds : t[n] = "closed"}

\* the kernel hands out the lowest free descriptor
LowestFree(t) == CHOOSE n \in FreeFds(t) : \A k \in FreeFds(t) : n <= k

\* os.dup(fd) and os.open(os.devnull, os.O_WRONLY)
os_dup(t, fd) ==
    [fd |-> LowestFree(t), fdt |-> [t EXCEPT ![LowestFree(t)] = t[fd]]]

os_open_devnull(t) ==
    [fd |-> LowestFree(t), fdt |-> [t EXCEPT ![LowestFree(t)] = "devnull"]]

\* a stream object: the two the interpreter starts with (owner 0), and the
\* ones os.fdopen makes in call `call` of generator `owner`; fd is the
\* descriptor the object writes to and closes when it is finalised
StreamObj(owner, call, name, fd) ==
    [owner |-> owner, call |-> call, name |-> name, fd |-> fd]

PysysStart ==
    [stdout |-> StreamObj(0, 0, "stdout", 1), stderr |-> StreamObj(0, 0, "stderr", 2)]

NoScope ==
    [stdout_fd |-> 0, stderr_fd |-> 0, devnull_fd |-> 0,
     original_stdout |-> PysysStart.stdout, original_stderr |-> PysysStart.stderr]

---------------------------------------------------------------------------
(* SuppressOutput *)

SuppressOutput_enter(t, sys, owner, call) ==
    LET d1 == os_dup(t, 1)
        d2 == os_dup(d1.fdt, 2)
        d3 == os_open_devnull(d2.fdt)
        t4 == [d3.fdt EXCEPT ![1] = d3.fdt[d3.fd]]
        t5 == [t4 EXCEPT ![2] = t4[d3.fd]]
    IN [fdt |-> t5,
        pysys |-> [stdout |-> StreamObj(owner, call, "stdout", d1.fd),
                   stderr |-> StreamObj(owner, call, "stderr", d2.fd)],
        self |-> [stdout_fd |-> d1.fd, stderr_fd |-> d2.fd, devnull_fd |-> d3.fd,
                  original_stdout |-> sys.stdout, original_stderr |-> sys.stderr]]

ExitResult(t, sys, error) == [fdt |-> t, pysys |-> sys, error |-> error]

\* __exit__ that closes the descriptors and leaves sys.stdout and sys.stderr
\* bound to the streams made on entry
SuppressOutput_exit_KeepsStreams(t, sys, self) ==
    IF t[self.stdout_fd] = "closed" THEN ExitResult(t, sys, "OSError")
    ELSE LET t1 == [t EXCEPT ![1] = t[self.stdout_fd]]
         IN IF t1[self.stderr_fd] = "closed" THEN ExitResult(t1, sys, "OSError")
            ELSE LET t2 == [t1 EXCEPT ![2] = t1[self.stderr_fd]]
                     t3 == [t2 EXCEPT ![self.stdout_fd] = "closed"]
                     t4 == [t3 EXCEPT ![self.stderr_fd] = "closed"]
                 IN IF t4[self.devnull_fd] = "closed" THEN ExitResult(t4, sys, "OSError")
                    ELSE ExitResult([t4 EXCEPT ![self.devnull_fd] = "closed"], sys, "none")

\* __exit__: os.dup2 and os.close raise OSError on a descriptor that is not
\* open, and the statements after the one that raises do not run.  It returns
\* None, so an exception of the with block propagates.
SuppressOutput_exit(t, sys, self) ==
    IF t[self.stdout_fd] = "closed" THEN ExitResult(t, sys, "OSError")
    ELSE LET t1 == [t EXCEPT ![1] = t[self.stdout_fd]]
         IN IF t1[self.stderr_fd] = "closed" THEN ExitResult(t1, sys, "OSError")
            ELSE LET t2 == [t1 EXCEPT ![2] = t1[self.stderr_fd]]
                     t3 == [t2 EXCEPT ![self.stdout_fd] = "closed"]
                     t4 == [t3 EXCEPT ![self.stderr_fd] = "closed"]
                 IN IF t4[self.devnull_fd] = "closed" THEN ExitResult(t4, sys, "OSError")
                    ELSE ExitResult([t4 EXCEPT ![self.devnull_fd] = "closed"],
                                    [stdout |-> self.original_stdout,
                                     stderr |-> self.original_stderr],
                                    "none")

---------------------------------------------------------------------------
(* temp_chdir and the lazy construction of the engine session *)

MlcDir == "<user_dir>/mlc"

\* the working directory while the body runs and after the context manager is
\* left; body_raises tells whether the body raised
temp_chdir_NoFinally(old_dir, path, body_raises) ==
    [during |-> path, after |-> IF body_raises THEN path ELSE old_dir]

temp_chdir(old_dir, path, body_raises) ==
    [during |-> path, after |-> old_dir]

ModelStart ==
    [chat_mod |-> None, constructed |-> 0, succeeded |-> FALSE, tried |-> FALSE,
     cwd_before |-> "", cwd_during |-> "", cwd_after |-> "", last_ok |-> TRUE]

\* lines 305-307; ctor is what the environment does: "ok", "chdir_error"
\* (os.chdir raises, the mlc directory is missing) or "ctor_error" (the
\* StreamingChatModule constructor raises)
LazyLoad(m, dir, ctor) ==
    IF m.chat_mod # None THEN [model |-> m, cwd |-> dir, error |-> "none"]
    ELSE IF ctor = "chdir_error"
    THEN [model |-> m, cwd |-> dir, error |-> "FileNotFoundError"]
    ELSE LET c == temp_chdir(dir, MlcDir, ctor # "ok")
         IN [model |-> [m EXCEPT !.chat_mod = IF ctor = "ok" THEN "session" ELSE None,
                                 !.constructed = IF ctor = "ok" THEN @ + 1 ELSE @,
                                 !.tried = TRUE,
                                 !.cwd_before = dir,
                                 !.cwd_during = c.during,
                                 !.cwd_after = c.after,
                                 !.last_ok = (ctor = "ok")],
             cwd |-> c.after,
             error |-> IF ctor = "ok" THEN "none" ELSE "EngineError"]

---------------------------------------------------------------------------
(* MlcModel.execute as a generator: generator g runs execute of model object g *)

Gens == {1, 2}

MaxCalls == 2

\* the directories the process may be in when the plugin is used
CallerDirs == {"/home/user", "/work"}

\* what descriptors 1 and 2 refer to and what sys.stdout and sys.stderr are
Snapshot(t, sys) ==
    [fd1 |-> t[1], fd2 |-> t[2], stdout |-> sys.stdout, stderr |-> sys.stderr]

Original == Snapshot(FdtStart, PysysStart)

\* pc: "idle" before the first call, "suspended" at a yield, "finished" once
\* the generator is exhausted, closed or has raised.  self is the
\* SuppressOutput instance of the with statement; entry and after are the
\* snapshots taken when the scope is entered and left, exits counts the runs
\* of __exit__, inner is the exception raised inside the with block and
\* raised the one that leaves the generator.
FrameStart ==
    [pc |-> "idle", calls |-> 0, streaming |-> FALSE,
     entered |-> FALSE, self |-> NoScope, entry |-> Original, after |-> Original,
     exits |-> 0, inner |-> "none", raised |-> "none"]

GenStart ==
    /\ fdt = FdtStart
    /\ pysys = PysysStart
    /\ cwd \in CallerDirs
    /\ model = [g \in Gens |-> ModelStart]
    /\ gen = [g \in Gens |-> FrameStart]

InitGen ==
    /\ GenStart
    /\ FilesStart
    /\ exec = ExecIdle
    /\ stream = StreamIdle

World(t, sys, dir, m, frame) ==
    [fdt |-> t, pysys |-> sys, cwd |-> dir, model |-> m, frame |-> frame]

\* the with block is left, normally (inner = "none") or by the exception
\* inner: __exit__ runs, and what it raises replaces inner
Leave(t, sys, dir, m, frame, inner) ==
    LET x == SuppressOutput_exit(t, sys, frame.self)
    IN World(x.fdt, x.pysys, dir,
             [m EXCEPT !.succeeded = @ \/ (inner = "none" /\ x.error = "none")],
             [frame EXCEPT !.pc = "finished",
                           !.exits = @ + 1,
                           !.inner = inner,
                           !.raised = IF x.error # "none" THEN x.error ELSE inner,
                           !.after = Snapshot(x.fdt, x.pysys),
                           !.self = NoScope])

\* execute from the call to its first yield, its end, or the exception that
\* ends it.  importable: mlc_chat can be imported; ctor: see LazyLoad; run:
\* "reset_error" (reset_chat raises), "engine_error" (generation raises),
\* "exhausted" (generate_iter ends without a fragment) or "yield"
execute_start(g, streaming, importable, ctor, run) ==
    LET f0 == [FrameStart EXCEPT !.calls = gen[g].calls + 1, !.streaming = streaming]
    IN IF ~importable
       THEN World(fdt, pysys, cwd, model[g],
                  [f0 EXCEPT !.pc = "finished", !.raised = "ClickException"])
       ELSE LET e == SuppressOutput_enter(fdt, pysys, g, f0.calls)
                f1 == [f0 EXCEPT !.entered = TRUE, !.self = e.self,
                                 !.entry = Snapshot(fdt, pysys)]
                c == LazyLoad(model[g], cwd, ctor)
            IN IF c.error # "none"
               THEN Leave(e.fdt, e.pysys, c.cwd, c.model, f1, c.error)
               ELSE IF run \in {"reset_error", "engine_error"}
               THEN Leave(e.fdt, e.pysys, c.cwd, c.model, f1, "EngineError")
               ELSE IF run = "exhausted"
               THEN Leave(e.fdt, e.pysys, c.cwd, c.model, f1, "none")
               ELSE World(e.fdt, e.pysys, c.cwd, c.model,
                          [f1 EXCEPT !.pc = "suspended"])

\* execute from a yield to the next yield, its end, or an exception; run is
\* "yield", "end" or "engine_error"
execute_resume(g, run) ==
    IF run = "yield"
    THEN World(fdt, pysys, cwd, model[g], gen[g])
    ELSE Leave(fdt, pysys, cwd, model[g], gen[g],
               IF run = "end" THEN "none" ELSE "EngineError")

\* generator.close(), also what the collector does to an abandoned
\* generator: GeneratorExit is raised at the yield
execute_close(g) ==
    Leave(fdt, pysys, cwd, model[g], gen[g], "GeneratorExit")

\* the stream objects something still refers to: sys.stdout, sys.stderr, and
\* the originals kept by the SuppressOutput instance of a suspended generator
Referenced(sys, gs) ==
    {sys.stdout, sys.stderr}
    \cup {gs[g].self.original_stdout : g \in {h \in Gens : gs[h].pc = "suspended"}}
    \cup {gs[g].self.original_stderr : g \in {h \in Gens : gs[h].pc = "suspended"}}

\* a stream object made by os.fdopen owns its descriptor: when the last
\* reference to it goes, its finaliser closes that descriptor number if it is
\* open (the error for a descriptor already closed is ignored)
Finalize(t, dropped) ==
    [n \in Fds |-> IF \E o \in dropped : o.owner # 0 /\ o.fd = n
                   THEN "closed" ELSE t[n]]

Commit(g, w) ==
    LET gs == [gen EXCEPT ![g] = w.frame]
    IN /\ gen' = gs
       /\ pysys' = w.pysys
       /\ cwd' = w.cwd
       /\ model' = [model EXCEPT ![g] = w.model]
       /\ fdt' = Finalize(w.fdt, Referenced(pysys, gen) \ Referenced(w.pysys, gs))
       /\ UNCHANGED notGenVars

Start(g) ==
    /\ gen[g].pc \in {"idle", "finished"}
    /\ gen[g].calls < MaxCalls
    /\ Cardinality(FreeFds(fdt)) >= 3
    /\ \E streaming \in BOOLEAN, importable \in BOOLEAN,
          ctor \in {"ok", "chdir_error", "ctor_error"},
          run \in {"yield", "reset_error", "engine_error", "exhausted"} :
           /\ run = "exhausted" => streaming
           /\ ~importable => ctor = "ok" /\ run = "yield"
           /\ model[g].chat_mod # None => ctor = "ok"
           /\ ctor # "ok" => run = "yield"
           /\ Commit(g, execute_start(g, streaming, importable, ctor, run))

Resume(g) ==
    /\ gen[g].pc = "suspended"
    /\ \E run \in {"yield", "end", "engine_error"} :
           /\ run = "yield" => gen[g].streaming
           /\ run = "engine_error" => gen[g].streaming
           /\ Commit(g, execute_resume(g, run))

Close(g) ==
    /\ gen[g].pc = "suspended"
    /\ Commit(g, execute_close(g))

\* no scope entered inside the scope of g is still open: no other suspended
\* generator entered its scope while the streams of g's current call were
\* in place
Innermost(g) ==
    \A h \in Gens \ {g} :
        gen[h].pc = "suspended" =>
            ~(gen[h].self.original_stdout.owner = g
              /\ gen[h].self.original_stdout.call = gen[g].calls)

ResumeNested(g) == Innermost(g) /\ Resume(g)

CloseNested(g) == Innermost(g) /\ Close(g)

NextNested ==
    \/ \E g \in Gens : Start(g)
    \/ \E g \in Gens : ResumeNested(g)
    \/ \E g \in Gens : CloseNested(g)

NextGen ==
    \/ \E g \in Gens : Start(g)
    \/ \E g \in Gens : Resume(g)
    \/ \E g \in Gens : Close(g)

\* scope uses are properly nested, as with statements in straight-line code
\* are: a generator started while another is suspended finishes first
SpecNested == InitGen /\ [][NextNested]_vars

\* execute generators interleave at their yields
SpecGen == InitGen /\ [][NextGen]_vars

C6_LazySessionOnce ==
    /\ cwd \in CallerDirs
    /\ \A m \in Gens :
           /\ (model[m].chat_mod = None) = (model[m].constructed = 0)
           /\ model[m].constructed <= 1
           /\ model[m].succeeded => model[m].constructed = 1
           /\ model[m].tried =>
                  /\ model[m].cwd_during = MlcDir
                  /\ model[m].cwd_after = model[m].cwd_before
                  /\ ~model[m].last_ok => model[m].chat_mod = None

\* model 1: constructed in its first call and reused by a second successful
\* call; model 2: a construction that raised
C6_Witness ==
    /\ gen[1].calls = 2 /\ gen[1].pc = "finished" /\ gen[1].raised = "none"
    /\ model[1].succeeded /\ model[1].constructed = 1
    /\ model[2].tried /\ ~model[2].last_ok /\ model[2].chat_mod = None
    /\ model[2].cwd_before = "/work"

\* C10: once both generators have finished, descriptors 1 and 2 and
\* sys.stdout / sys.stderr are the original ones; while a generator is
\* suspended at a yield, descriptors 1 and 2 refer to the null sink.
C10_InterleavedRestores ==
    /\ (\A g \in Gens : gen[g].pc = "finished" /\ gen[g].entered)
           => Snapshot(fdt, pysys) = Original
    /\ \A g \in Gens :
           gen[g].pc = "suspended" => fdt[1] = "devnull" /\ fdt[2] = "devnull"

====
